---- MODULE Spec2Model ----
(***************************************************************************)
(* Model of src/libcore/iter/traits/mod.rs: the Sum/Product instantiations *)
(* of integer_sum_product!, the ResultShunt adapter with the fallible      *)
(* Sum/Product built on it, the blanket IntoIterator impl, Extend<()> for  *)
(* () and the FusedIterator marker for &mut I.                             *)
(*                                                                         *)
(* A producer is a script of poll outcomes: poll number k answers with the *)
(* k-th entry of the script and with None once the script is over.  A      *)
(* script may hold None entries followed by further elements (a producer   *)
(* without idempotent exhaustion).  Option values are sequences of length  *)
(* at most one: None is <<>> and Some(x) is <<x>>.                         *)
(***************************************************************************)
EXTENDS Integers, Sequences, FiniteSets, TLC

VARIABLES op, num, checks, mem, coll, iter, error, acc, pc, result, conv, via

vars == <<op, num, checks, mem, coll, iter, error, acc, pc, result, conv, via>>

(***************************************************************************)
(* Bounds of the model.                                                    *)
(***************************************************************************)
MaxLen == 3
MaxLenR == 4
MemLen == 2
MaxPolls == 4

(***************************************************************************)
(* Option, Result, Wrapping and reference values.                          *)
(***************************************************************************)
None == <<>>
Some(x) == <<x>>
Ok(v) == [ok |-> v]
Err(e) == [err |-> e]
IsOk(r) == DOMAIN r = {"ok"}
IsErr(r) == DOMAIN r = {"err"}
Wrapping(v) == [w |-> v]
Ref(i) == [ref |-> i]
Value(v) == [value |-> v]
Unit == "()"
Panicked == [panic |-> "overflow"]

(***************************************************************************)
(* The integer representation: i8, the first type of                       *)
(* integer_sum_product! { i8 i16 ... usize }.                              *)
(***************************************************************************)
Bits == 8
MinVal == -(2 ^ (Bits - 1))
MaxVal == (2 ^ (Bits - 1)) - 1
InRange(m) == MinVal <= m /\ m <= MaxVal
Wrap(m) == ((m - MinVal) % (2 ^ Bits)) + MinVal

Ints == {MinVal, -1, 0, 1, 2, MaxVal}
ResInts == {1, 2, 99}
RefInts == {-1, 2, MaxVal}
Errs == {"bad", "worse"}

SeqsUpTo(S, n) == UNION {[1..k -> S] : k \in 0..n}

(***************************************************************************)
(* The type's own combination operations (core::ops::Add / Mul).  A plain  *)
(* integer inherits the overflow checks of the build: with checks the      *)
(* operation panics when the exact result is not representable, without    *)
(* checks it wraps.  Wrapping<T> always wraps.  A combination answers      *)
(* [panic |-> TRUE] or [panic |-> FALSE, val |-> v].                       *)
(***************************************************************************)
Exact(f, a, b) == IF f = "Add" THEN a + b ELSE a * b

IntOp(f, ck, a, b) ==
    LET m == Exact(f, a, b)
    IN  IF InRange(m) THEN [panic |-> FALSE, val |-> m]
        ELSE IF ck THEN [panic |-> TRUE]
        ELSE [panic |-> FALSE, val |-> Wrap(m)]

WrappingOp(f, a, b) == [panic |-> FALSE, val |-> Wrapping(Wrap(Exact(f, a.w, b.w)))]

Deref(m, r) == m[r.ref]

\* Add::add / Mul::mul at the element type of the call: by value, or by
\* reference (the forwarding impl dereferences the right operand).
Combine(call, wr, ck, m, a, x) ==
    LET b == IF call.item = "ref" THEN Deref(m, x) ELSE x
    IN  IF wr THEN WrappingOp(call.f, a, b) ELSE IntOp(call.f, ck, a, b)

(***************************************************************************)
(* integer_sum_product!: the identity arguments of the two instantiations  *)
(* and the four impls, each a fold call (initial accumulator, function).   *)
(***************************************************************************)
\* The identity arguments handed over in the wrong order.
integer_sum_product_Swapped(wr) ==
    IF wr THEN [zero |-> Wrapping(1), one |-> Wrapping(0)]
    ELSE [zero |-> 1, one |-> 0]

integer_sum_product(wr) ==
    IF wr THEN [zero |-> Wrapping(0), one |-> Wrapping(1)]
    ELSE [zero |-> 0, one |-> 1]

\* A sum that folds from $one.
sum_FromOne(wr) == [init |-> integer_sum_product(wr).one, f |-> "Add", item |-> "val"]

sum(wr) == [init |-> integer_sum_product(wr).zero, f |-> "Add", item |-> "val"]

\* A product that folds from $zero.
product_FromZero(wr) == [init |-> integer_sum_product(wr).zero, f |-> "Mul", item |-> "val"]

product(wr) == [init |-> integer_sum_product(wr).one, f |-> "Mul", item |-> "val"]

\* A sum over references that folds with Mul::mul.
sum_ref_CallsMul(wr) == [init |-> integer_sum_product(wr).zero, f |-> "Mul", item |-> "ref"]

sum_ref(wr) == [init |-> integer_sum_product(wr).zero, f |-> "Add", item |-> "ref"]

product_ref(wr) == [init |-> integer_sum_product(wr).one, f |-> "Mul", item |-> "ref"]

(***************************************************************************)
(* Iterator::next of the underlying producer.  pos counts the polls made.  *)
(***************************************************************************)
IterNext(p) ==
    [out |-> IF p.pos < Len(p.script) THEN p.script[p.pos + 1] ELSE None,
     it  |-> [p EXCEPT !.pos = @ + 1]]

\* Iterator::size_hint of the underlying producer: the lower bound counts the
\* elements up to the next exhaustion report, the upper bound all elements
\* still to come, or is absent for a producer that reports no upper bound.
IterSizeHint(p) ==
    LET rest == {i \in (p.pos + 1)..Len(p.script) : p.script[i] # None}
        stop == {i \in (p.pos + 1)..Len(p.script) : p.script[i] = None}
        low  == Cardinality({i \in rest : \A j \in stop : i < j})
    IN  IF p.hint = "bounded" THEN <<low, Some(Cardinality(rest))>> ELSE <<low, None>>

\* Iterator::next for &mut I: forwards to the referenced producer.
RefNext(p) == IterNext(p)

\* A conversion that hands back a producer started afresh.
into_iter_Restarts(self) == [self EXCEPT !.pos = 0]

\* impl<I: Iterator> IntoIterator for I
into_iter(self) == self

\* The marker given to every &mut I, fused or not.
RefIsFused_Always(p) == TRUE

\* impl<I: FusedIterator + ?Sized> FusedIterator for &mut I
RefIsFused(p) == p.fused

(***************************************************************************)
(* ResultShunt.                                                            *)
(***************************************************************************)
ResultShunt_new(it) == [iter |-> it, error |-> None]

\* A shunt that records the failure and goes on to the element after it.
ResultShunt_next_SkipsFailure(self) ==
    LET r == IterNext(self.iter)
        n == IterNext(r.it)
    IN  IF r.out = None
        THEN [out |-> None, it |-> [self EXCEPT !.iter = r.it]]
        ELSE IF IsOk(r.out[1])
        THEN [out |-> Some(r.out[1].ok), it |-> [self EXCEPT !.iter = r.it]]
        ELSE [out |-> IF n.out # None /\ IsOk(n.out[1]) THEN Some(n.out[1].ok) ELSE None,
              it  |-> [self EXCEPT !.iter = n.it, !.error = Some(r.out[1].err)]]

\* A shunt that asks the underlying producer once more after its None.
ResultShunt_next_PollsAfterNone(self) ==
    LET r0 == IterNext(self.iter)
        r  == IF r0.out = None THEN IterNext(r0.it) ELSE r0
    IN  IF r.out = None
        THEN [out |-> None, it |-> [self EXCEPT !.iter = r.it]]
        ELSE IF IsOk(r.out[1])
        THEN [out |-> Some(r.out[1].ok), it |-> [self EXCEPT !.iter = r.it]]
        ELSE [out |-> None,
              it  |-> [self EXCEPT !.iter = r.it, !.error = Some(r.out[1].err)]]

ResultShunt_next(self) ==
    LET r == IterNext(self.iter)
    IN  IF r.out = None
        THEN [out |-> None, it |-> [self EXCEPT !.iter = r.it]]
        ELSE IF IsOk(r.out[1])
        THEN [out |-> Some(r.out[1].ok), it |-> [self EXCEPT !.iter = r.it]]
        ELSE [out |-> None,
              it  |-> [self EXCEPT !.iter = r.it, !.error = Some(r.out[1].err)]]

\* A size hint that hands on the lower bound of the underlying producer.
ResultShunt_size_hint_KeepsLower(self) ==
    IF self.error # None THEN <<0, Some(0)>> ELSE IterSizeHint(self.iter)

ResultShunt_size_hint(self) ==
    IF self.error # None THEN <<0, Some(0)>>
    ELSE <<0, IterSizeHint(self.iter)[2]>>

\* A reconstruct that forgets to look at the error slot.
ResultShunt_reconstruct_IgnoresSlot(self, val) == Ok(val)

ResultShunt_reconstruct(self, val) ==
    IF self.error = None THEN Ok(val) ELSE Err(self.error[1])

\* Sum<Result<U, E>> for Result<T, E> and Product<Result<U, E>>: the closure
\* handed to ResultShunt::process is the inner type's sum / product.
\* The closure of the fallible sum calling product.
result_sum_CallsProduct == product(FALSE)

result_sum == sum(FALSE)

result_product == product(FALSE)

(***************************************************************************)
(* Operations.                                                             *)
(***************************************************************************)
PlainOps == {"sum", "product", "sum_ref", "product_ref"}
ResultOps == {"result_sum", "result_product"}
\* Operations that build a ResultShunt: the two above, and ResultShunt::process
\* with a closure that polls the shunt as it likes.
ShuntOps == ResultOps \cup {"process"}
ConsumerVals == {0, 7}

Call(o, wr) ==
    CASE o = "sum" -> sum(wr)
      [] o = "product" -> product(wr)
      [] o = "sum_ref" -> sum_ref(wr)
      [] o = "product_ref" -> product_ref(wr)
      [] o = "result_sum" -> result_sum
      [] o = "result_product" -> result_product

NumVals(wr) == IF wr THEN {Wrapping(v) : v \in Ints} ELSE Ints
MemVals(wr) == IF wr THEN {Wrapping(v) : v \in RefInts} ELSE RefInts

Items(o, wr) ==
    CASE o \in {"sum", "product"} -> {Some(v) : v \in NumVals(wr)}
      [] o \in {"sum_ref", "product_ref"} -> {Some(Ref(i)) : i \in 1..MemLen}
      [] o \in ShuntOps ->
            {Some(Ok(v)) : v \in ResInts} \cup {Some(Err(e)) : e \in Errs}
      [] o = "client" -> {Some(v) : v \in {1, 2}}
      [] o = "extend_unit" -> {Some(Unit)}

ScriptLen(o) == IF o \in ShuntOps THEN MaxLenR ELSE MaxLen

\* The script keeps idempotent exhaustion: nothing but None after a None.
\* A producer may carry the FusedIterator marker only if its script does;
\* the aggregations never look at the marker, so the producers handed to
\* them carry it whenever they may.
IsFusedScript(s) ==
    \A i \in 1..Len(s) : s[i] = None => \A j \in i..Len(s) : s[j] = None

Init ==
    /\ op \in PlainOps \cup ShuntOps \cup {"client", "extend_unit"}
    /\ num \in [wrapping : IF op \in PlainOps THEN BOOLEAN ELSE {FALSE}]
    /\ checks \in IF op \in {"process", "extend_unit"} THEN {FALSE} ELSE BOOLEAN
    /\ coll = Unit
    /\ mem \in IF op \in {"sum_ref", "product_ref"}
               THEN [1..MemLen -> MemVals(num.wrapping)] ELSE {<<>>}
    /\ \E s \in SeqsUpTo(Items(op, num.wrapping) \cup {None}, ScriptLen(op)) :
       \E fu \in IF op = "client" THEN BOOLEAN ELSE {IsFusedScript(s)} :
       \E h \in IF op = "process" THEN {"bounded", "unbounded"} ELSE {"bounded"} :
          /\ fu => IsFusedScript(s)
          /\ iter = [script |-> s, pos |-> 0, fused |-> fu, hint |-> h]
    /\ error = IF op \in ShuntOps THEN ResultShunt_new(iter).error ELSE None
    /\ acc = IF op \in {"client", "process", "extend_unit"} THEN None
             ELSE Some(Call(op, num.wrapping).init)
    /\ pc = CASE op = "client" -> "client"
              [] op = "process" -> "consume"
              [] op = "extend_unit" -> "extend"
              [] OTHER -> "fold"
    /\ result = None
    /\ conv = 0
    /\ via = "none"

(***************************************************************************)
(* Iterator::fold: one pass of its loop, given the answer r of the poll    *)
(* and the accumulator a.  The pass returns the accumulator on None, and   *)
(* otherwise combines accumulator (left) and element (right).              *)
(***************************************************************************)
fold_pass(r, a, call, wr, ck, m) ==
    IF r.out = None THEN [kind |-> "return", val |-> a]
    ELSE LET c == Combine(call, wr, ck, m, a, r.out[1])
         IN  IF c.panic THEN [kind |-> "panic"]
             ELSE [kind |-> "continue", val |-> c.val]

\* Sum::sum / Product::product of integer_sum_product!: iter.fold(..).
FoldPlain ==
    /\ pc = "fold"
    /\ op \in PlainOps
    /\ LET r == IterNext(iter)
           p == fold_pass(r, acc[1], Call(op, num.wrapping), num.wrapping, checks, mem)
       IN  /\ iter' = r.it
           /\ pc' = CASE p.kind = "return" -> "done"
                      [] p.kind = "panic" -> "panicked"
                      [] p.kind = "continue" -> "fold"
           /\ result' = CASE p.kind = "return" -> Some(Value(p.val))
                          [] p.kind = "panic" -> Some(Panicked)
                          [] p.kind = "continue" -> result
           /\ acc' = IF p.kind = "continue" THEN Some(p.val) ELSE acc
    /\ UNCHANGED <<op, num, checks, mem, coll, error, conv, via>>

\* ResultShunt::process: the closure folds over shunt.by_ref(); when it
\* returns, its value waits for reconstruct.
FoldShunt ==
    /\ pc = "fold"
    /\ op \in ResultOps
    /\ LET r == ResultShunt_next([iter |-> iter, error |-> error])
           p == fold_pass(r, acc[1], Call(op, num.wrapping), num.wrapping, checks, mem)
       IN  /\ iter' = r.it.iter
           /\ error' = r.it.error
           /\ pc' = CASE p.kind = "return" -> "reconstruct"
                      [] p.kind = "panic" -> "panicked"
                      [] p.kind = "continue" -> "fold"
           /\ result' = IF p.kind = "panic" THEN Some(Panicked) ELSE result
           /\ acc' = IF p.kind = "continue" THEN Some(p.val) ELSE acc
    /\ UNCHANGED <<op, num, checks, mem, coll, conv, via>>

\* ResultShunt::process after the closure returned: shunt.reconstruct(value).
Reconstruct ==
    /\ pc = "reconstruct"
    /\ result' = Some(ResultShunt_reconstruct([iter |-> iter, error |-> error], acc[1]))
    /\ pc' = "done"
    /\ UNCHANGED <<op, num, checks, mem, coll, iter, error, acc, conv, via>>

(***************************************************************************)
(* A client that holds the producer: it polls it directly, polls it        *)
(* through a mutable reference, or converts it with into_iter.             *)
(***************************************************************************)
Poll ==
    /\ pc = "client"
    /\ iter.pos < MaxPolls
    /\ LET r == IterNext(iter)
       IN  /\ iter' = r.it
           /\ acc' = r.out
    /\ via' = "direct"
    /\ UNCHANGED <<op, num, checks, mem, coll, error, pc, result, conv>>

PollByRef ==
    /\ pc = "client"
    /\ iter.pos < MaxPolls
    /\ LET r == RefNext(iter)
       IN  /\ iter' = r.it
           /\ acc' = r.out
    /\ via' = "ref"
    /\ UNCHANGED <<op, num, checks, mem, coll, error, pc, result, conv>>

IntoIter ==
    /\ pc = "client"
    /\ conv < 1
    /\ iter' = into_iter(iter)
    /\ conv' = conv + 1
    /\ via' = "into_iter"
    /\ UNCHANGED <<op, num, checks, mem, coll, error, acc, pc, result>>

(***************************************************************************)
(* ResultShunt::process with an arbitrary closure f: f polls the shunt     *)
(* through shunt.by_ref() any number of times (acc holds the last answer)  *)
(* and returns some value, which then waits for reconstruct.               *)
(***************************************************************************)
ShuntPoll ==
    /\ pc = "consume"
    /\ iter.pos < MaxPolls
    /\ LET r == ResultShunt_next([iter |-> iter, error |-> error])
       IN  /\ iter' = r.it.iter
           /\ error' = r.it.error
           /\ acc' = r.out
    /\ via' = "ref"
    /\ UNCHANGED <<op, num, checks, mem, coll, pc, result, conv>>

ConsumerReturn ==
    /\ pc = "consume"
    /\ \E v \in ConsumerVals : acc' = Some(v)
    /\ pc' = "reconstruct"
    /\ via' = "none"
    /\ UNCHANGED <<op, num, checks, mem, coll, iter, error, result, conv>>

(***************************************************************************)
(* Extend<()> for (): iter.into_iter().for_each(drop).  One pass of        *)
(* for_each hands the polled element to drop, which leaves the container   *)
(* alone, and the call returns at the first exhaustion report.             *)
(***************************************************************************)
\* An extend that takes one element only.
extend_pass_TakesOne(r, c) == [kind |-> "return", coll |-> c]

extend_pass(r, c) ==
    IF r.out = None THEN [kind |-> "return", coll |-> c]
    ELSE [kind |-> "continue", coll |-> c]

ExtendCall ==
    /\ pc = "extend"
    /\ iter' = into_iter(iter)
    /\ conv' = conv + 1
    /\ pc' = "for_each"
    /\ UNCHANGED <<op, num, checks, mem, coll, error, acc, result, via>>

ForEach ==
    /\ pc = "for_each"
    /\ LET r == IterNext(iter)
           p == extend_pass(r, coll)
       IN  /\ iter' = r.it
           /\ coll' = p.coll
           /\ pc' = IF p.kind = "return" THEN "done" ELSE "for_each"
    /\ UNCHANGED <<op, num, checks, mem, error, acc, result, conv, via>>

Next ==
    \/ FoldPlain \/ FoldShunt \/ Reconstruct \/ Poll \/ PollByRef \/ IntoIter
    \/ ShuntPoll \/ ConsumerReturn \/ ExtendCall \/ ForEach

Spec == Init /\ [][Next]_vars

\* extend runs to completion on its caller's thread: a pending step of it
\* is eventually taken.
FairSpec == Spec /\ WF_vars(ExtendCall) /\ WF_vars(ForEach)

(***************************************************************************)
(* Reference notions used by the properties.                               *)
(***************************************************************************)
FirstNone(s) ==
    IF \E i \in 1..Len(s) : s[i] = None
    THEN CHOOSE i \in 1..Len(s) : s[i] = None /\ \A j \in 1..(i - 1) : s[j] # None
    ELSE Len(s) + 1

\* The finite sequence a producer yields up to its first exhaustion report.
Elems(s) == [i \in 1..(FirstNone(s) - 1) |-> s[i][1]]

ErrPositions(S) == {i \in 1..Len(S) : IsErr(S[i])}
HasErr(S) == ErrPositions(S) # {}
FirstErrPos(S) == CHOOSE i \in ErrPositions(S) : \A j \in ErrPositions(S) : i <= j
Unwrapped(S) == [i \in 1..Len(S) |-> S[i].ok]

\* Left fold of the type's own operation f over S from a: ((a f S[1]) f S[2]) ...
RECURSIVE LeftFold(_, _, _, _, _)
LeftFold(f, wr, ck, a, S) ==
    IF S = <<>> THEN Value(a)
    ELSE LET c == IF wr THEN WrappingOp(f, a, Head(S)) ELSE IntOp(f, ck, a, Head(S))
         IN  IF c.panic THEN Panicked ELSE LeftFold(f, wr, ck, c.val, Tail(S))

Lift(o) == IF o = Panicked THEN Panicked ELSE Ok(o.value)

Finished == pc \in {"done", "panicked"}
Seq0 == Elems(iter.script)

(***************************************************************************)
(* C1: when the sequence of a fallible sum or product holds at least one   *)
(* Err, the call returns Err(e) with e the error of the Err at the         *)
(* smallest position; no Ok and no later error is ever its result.         *)
(***************************************************************************)
C1_FirstErrReturned ==
    (op \in ResultOps /\ HasErr(Seq0)) =>
        /\ pc = "done" => result = Some(Err(Seq0[FirstErrPos(Seq0)].err))
        /\ result # None =>
              result[1] \in {Panicked, Err(Seq0[FirstErrPos(Seq0)].err)}

C1_Witness ==
    /\ op \in ResultOps
    /\ pc = "done"
    /\ result = Some(Err("bad"))
    /\ \E i, j \in 1..Len(Seq0) :
          /\ 1 < i /\ i < j
          /\ Seq0[i] = Err("bad")
          /\ Seq0[j] = Err("worse")

(***************************************************************************)
(* C2: a fallible sum or product polls nothing past the first failure:     *)
(* with the first Err at 0-based position k the producer is never polled   *)
(* more than k+1 times, and a call that returns has polled it exactly k+1  *)
(* times.                                                                  *)
(***************************************************************************)
C2_NoPollPastFirstErr ==
    (op \in ResultOps /\ HasErr(Seq0)) =>
        /\ iter.pos <= FirstErrPos(Seq0)
        /\ pc = "done" => iter.pos = FirstErrPos(Seq0)

C2_Witness ==
    /\ op = "result_sum"
    /\ pc = "done"
    /\ iter.script = <<Some(Ok(1)), Some(Ok(2)), Some(Err("bad")), Some(Ok(99))>>
    /\ iter.pos = 3
    /\ result = Some(Err("bad"))

(***************************************************************************)
(* C3: when every element of the sequence is Ok(x_i) (the empty sequence   *)
(* included) the fallible sum ends as the plain sum of the x_i does,       *)
(* wrapped in Ok, and the fallible product as the plain product does.      *)
(***************************************************************************)
C3_AllOkIsPlain ==
    (op \in ResultOps /\ ~HasErr(Seq0) /\ Finished) =>
        result = Some(Lift(LeftFold(IF op = "result_sum" THEN "Add" ELSE "Mul",
                                    FALSE, checks,
                                    IF op = "result_sum" THEN 0 ELSE 1,
                                    Unwrapped(Seq0))))

C3_Witness ==
    /\ pc = "done"
    /\ \/ /\ op = "result_sum"
          /\ Seq0 = <<Ok(1), Ok(2), Ok(99)>>
          /\ result = Some(Ok(102))
       \/ /\ op = "result_product"
          /\ Seq0 = <<Ok(2), Ok(2), Ok(2)>>
          /\ result = Some(Ok(8))

(***************************************************************************)
(* Reference notions for the integer aggregations.                         *)
(***************************************************************************)
OpOf(o) == IF o \in {"sum", "sum_ref", "result_sum"} THEN "Add" ELSE "Mul"
IdentityOf(o, wr) ==
    LET n == IF OpOf(o) = "Add" THEN 0 ELSE 1
    IN  IF wr THEN Wrapping(n) ELSE n

\* The exact (unbounded) total of a sequence of integers.
RECURSIVE MathFold(_, _)
MathFold(f, S) ==
    IF S = <<>> THEN (IF f = "Add" THEN 0 ELSE 1)
    ELSE Exact(f, MathFold(f, SubSeq(S, 1, Len(S) - 1)), S[Len(S)])

Prefix(S, k) == SubSeq(S, 1, k)
Unwrapping(S) == [i \in 1..Len(S) |-> S[i].w]
Derefs(S) == [i \in 1..Len(S) |-> mem[S[i].ref]]

(***************************************************************************)
(* C4: sum is the left fold of the type's addition from zero and product   *)
(* the left fold of its multiplication from one: after n polls the         *)
(* accumulator is the fold of the first n elements in the order yielded,   *)
(* and the returned value is the fold of the whole sequence, each element  *)
(* polled once.                                                            *)
(***************************************************************************)
C4_LeftFold ==
    op \in {"sum", "product"} =>
        /\ pc = "fold" =>
              Value(acc[1]) = LeftFold(OpOf(op), num.wrapping, checks,
                                       IdentityOf(op, num.wrapping),
                                       Prefix(Seq0, iter.pos))
        /\ Finished =>
              result = Some(LeftFold(OpOf(op), num.wrapping, checks,
                                     IdentityOf(op, num.wrapping), Seq0))
        /\ pc = "done" => iter.pos = Len(Seq0) + 1

C4_Witness ==
    /\ pc = "done"
    /\ ~num.wrapping
    /\ \/ op = "sum" /\ Seq0 = <<MaxVal, MinVal, 2>> /\ result = Some(Value(1))
       \/ op = "product" /\ Seq0 = <<2, -1, 2>> /\ result = Some(Value(-4))

(***************************************************************************)
(* C5: over a producer that reports exhaustion on its first poll, sum      *)
(* returns 0 (Wrapping(0)) and product 1 (Wrapping(1)), in every family.   *)
(***************************************************************************)
C5_EmptyIsIdentity ==
    (op \in PlainOps /\ Seq0 = <<>> /\ iter.pos >= 1) =>
        /\ pc = "done"
        /\ iter.pos = 1
        /\ result = Some(Value(IdentityOf(op, num.wrapping)))

C5_Witness ==
    /\ op = "product"
    /\ num.wrapping
    /\ iter.script = <<None, Some(Wrapping(2))>>
    /\ pc = "done"
    /\ result = Some(Value(Wrapping(1)))

(***************************************************************************)
(* C6: with overflow-checked arithmetic, sum and product over plain        *)
(* integers end in the overflow failure exactly when the exact total of    *)
(* some prefix of the sequence is not representable, and return the exact  *)
(* total otherwise.                                                        *)
(***************************************************************************)
C6_OverflowNotSuppressed ==
    (op \in {"sum", "product"} /\ ~num.wrapping /\ checks /\ Finished) =>
        IF \E k \in 1..Len(Seq0) : ~InRange(MathFold(OpOf(op), Prefix(Seq0, k)))
        THEN pc = "panicked" /\ result = Some(Panicked)
        ELSE pc = "done" /\ result = Some(Value(MathFold(OpOf(op), Seq0)))

C6_Witness ==
    /\ op = "sum"
    /\ ~num.wrapping
    /\ checks
    /\ Seq0 = <<MaxVal, 1, -1>>
    /\ InRange(MathFold("Add", Seq0))
    /\ pc = "panicked"

(***************************************************************************)
(* C7: sum and product over Wrapping never fail and return the exact       *)
(* total of the sequence reduced modulo 2^Bits.                            *)
(***************************************************************************)
C7_WrappingTotal ==
    (op \in {"sum", "product"} /\ num.wrapping) =>
        /\ pc # "panicked"
        /\ pc = "done" =>
              result = Some(Value(Wrapping(Wrap(MathFold(OpOf(op), Unwrapping(Seq0))))))

C7_Witness ==
    /\ num.wrapping
    /\ pc = "done"
    /\ \/ /\ op = "sum"
          /\ Seq0 = <<Wrapping(MaxVal), Wrapping(MaxVal), Wrapping(2)>>
          /\ result = Some(Value(Wrapping(0)))
       \/ /\ op = "product"
          /\ Seq0 = <<Wrapping(MaxVal), Wrapping(2), Wrapping(MaxVal)>>
          /\ result = Some(Value(Wrapping(2)))

(***************************************************************************)
(* C8: sum and product over references to elements end as the sum and      *)
(* product over the referenced elements themselves, in the same order,     *)
(* and the referenced elements are never changed.                          *)
(***************************************************************************)
C8_RefSameAsValue ==
    /\ [](op \in {"sum_ref", "product_ref"} /\ Finished =>
            result = Some(LeftFold(OpOf(op), num.wrapping, checks,
                                   IdentityOf(op, num.wrapping), Derefs(Seq0))))
    /\ [][mem' = mem]_vars

C8_Witness ==
    /\ op = "sum_ref"
    /\ ~num.wrapping
    /\ pc = "done"
    /\ ~checks
    /\ mem[1] = 2 /\ mem[2] = MaxVal
    /\ Seq0 = <<Ref(2), Ref(1), Ref(1)>>
    /\ result = Some(Value(Wrap(MaxVal + 4)))

(***************************************************************************)
(* Reference notions for the client of a producer.                         *)
(***************************************************************************)
\* The answer of poll number i of a producer with script s.
Answer(s, i) == IF i <= Len(s) THEN s[i] ELSE None

\* The answers of the next n polls of producer p.
Upcoming(p, n) == [i \in 1..n |-> Answer(p.script, p.pos + i)]

(***************************************************************************)
(* C9: into_iter on a producer hands back the same producer: the step      *)
(* polls nothing and the answers of all later polls are the ones the       *)
(* producer would have given without the conversion, whether the producer  *)
(* was fresh, partly consumed or exhausted.                                *)
(***************************************************************************)
C9_IntoIterIsSelf ==
    [][IntoIter =>
         /\ iter'.pos = iter.pos
         /\ Upcoming(iter', MaxLen + 1) = Upcoming(iter, MaxLen + 1)]_vars

C9_Witness ==
    /\ via = "into_iter"
    /\ conv = 1
    /\ iter.script = <<Some(1), Some(2), Some(1)>>
    /\ iter.pos = 1
    /\ acc = Some(1)

(***************************************************************************)
(* C10: a mutable reference to a producer carries the idempotent           *)
(* exhaustion marker only when the producer does, and every poll through   *)
(* such a reference made after an exhaustion report (given directly or     *)
(* through the reference) reports exhaustion again.                        *)
(***************************************************************************)
C10_RefKeepsExhaustion ==
    (/\ pc = "client"
     /\ via = "ref"
     /\ RefIsFused(iter)
     /\ \E i \in 1..(iter.pos - 1) : Answer(iter.script, i) = None) => acc = None

C10_Witness ==
    /\ pc = "client"
    /\ via = "ref"
    /\ RefIsFused(iter)
    /\ iter.script = <<Some(1)>>
    /\ iter.pos = 4
    /\ acc = None

(***************************************************************************)
(* Reference notions for the fail-fast adapter.                            *)
(***************************************************************************)
Shunt == [iter |-> iter, error |-> error]

\* Positions of the failures the underlying producer has produced so far.
FailuresPolled ==
    {i \in 1..iter.pos : i <= Len(iter.script) /\ iter.script[i] # None
                          /\ IsErr(iter.script[i][1])}

FirstFailurePolled ==
    CHOOSE i \in FailuresPolled : \A j \in FailuresPolled : i <= j

(***************************************************************************)
(* C11: once the error slot of the adapter is set, every later poll of     *)
(* the adapter reports exhaustion, whatever the underlying producer would  *)
(* still yield.                                                            *)
(***************************************************************************)
C11_ExhaustedOnceFailed ==
    [][(ShuntPoll /\ error # None) => acc' = None]_vars

(***************************************************************************)
(* C12: the error slot starts empty and is written at most once: it is     *)
(* empty until the underlying producer has produced a failure, and from    *)
(* then on holds the error of the first failure produced.                  *)
(***************************************************************************)
C12_SlotHoldsFirstFailure ==
    op \in ShuntOps =>
        error = IF FailuresPolled = {} THEN None
                ELSE Some(iter.script[FirstFailurePolled][1].err)

(***************************************************************************)
(* C13: ResultShunt::process always finalizes: once the closure has        *)
(* returned, reconstruct is the step to take, and the call returns Err(e)  *)
(* exactly when the slot holds e at that moment, dropping the closure's    *)
(* value, and Ok(v) with the closure's value v exactly when the slot is    *)
(* empty.                                                                  *)
(***************************************************************************)
C13_ProcessFinalizes ==
    op \in ShuntOps =>
        /\ pc = "reconstruct" => ENABLED Reconstruct
        /\ pc = "done" =>
              result = Some(IF error = None THEN Ok(acc[1]) ELSE Err(error[1]))

C13_Witness ==
    /\ op = "process"
    /\ pc = "done"
    /\ iter.script = <<Some(Ok(1)), Some(Err("bad")), Some(Ok(2))>>
    /\ iter.pos = 2
    /\ acc = Some(7)
    /\ result = Some(Err("bad"))

(***************************************************************************)
(* C14: in every state of the adapter its size hint is (0, u), u the       *)
(* current upper bound of the underlying producer, while the error slot    *)
(* is empty, and (0, Some(0)) while the slot holds an error; the lower     *)
(* bound is 0 whatever the underlying lower bound is.                      *)
(***************************************************************************)
C14_SizeHintShape ==
    op \in ShuntOps =>
        /\ ResultShunt_size_hint(Shunt)[1] = 0
        /\ error = None => ResultShunt_size_hint(Shunt)[2] = IterSizeHint(iter)[2]
        /\ error # None => ResultShunt_size_hint(Shunt)[2] = Some(0)

C14_Witness ==
    /\ op = "process"
    /\ pc = "consume"
    /\ error = Some("bad")
    /\ IterSizeHint(iter) = <<2, Some(2)>>
    /\ ResultShunt_size_hint(Shunt) = <<0, Some(0)>>

(***************************************************************************)
(* C15: extending () with a sequence of n unit elements terminates: the    *)
(* producer is converted once, polled n+1 times and never after its first  *)
(* exhaustion report, and the container is the same unit value.            *)
(***************************************************************************)
C15_ExtendUnit ==
    /\ [](op = "extend_unit" =>
            /\ coll = Unit
            /\ iter.pos <= Len(Seq0) + 1
            /\ pc = "done" => iter.pos = Len(Seq0) + 1 /\ conv = 1)
    /\ (op = "extend_unit") ~> (pc = "done")

C15_Witness ==
    /\ op = "extend_unit"
    /\ pc = "done"
    /\ iter.script = <<Some(Unit), Some(Unit), None>>
    /\ iter.pos = 3
    /\ coll = Unit

(***************************************************************************)
(* C16: plain and fallible sum and product never poll the producer after   *)
(* its first exhaustion report: over n elements, all successes, the        *)
(* producer is polled at most n+1 times, exactly n+1 times when the call   *)
(* returns, and the value returned is that of the n elements alone,        *)
(* whatever the producer would yield after that report.                    *)
(***************************************************************************)
OutcomeOf(o, S) ==
    CASE o \in {"sum", "product"} ->
            LeftFold(OpOf(o), num.wrapping, checks, IdentityOf(o, num.wrapping), S)
      [] o \in {"sum_ref", "product_ref"} ->
            LeftFold(OpOf(o), num.wrapping, checks, IdentityOf(o, num.wrapping), Derefs(S))
      [] o \in ResultOps ->
            Lift(LeftFold(OpOf(o), FALSE, checks, IdentityOf(o, FALSE), Unwrapped(S)))

C16_NoPollAfterExhaustion ==
    (op \in PlainOps \cup ResultOps /\ (op \in ResultOps => ~HasErr(Seq0))) =>
        /\ iter.pos <= Len(Seq0) + 1
        /\ pc = "done" => /\ iter.pos = Len(Seq0) + 1
                          /\ result = Some(OutcomeOf(op, Seq0))

C16_Witness ==
    /\ op = "result_sum"
    /\ pc = "done"
    /\ iter.script = <<Some(Ok(1)), Some(Ok(2)), None, Some(Ok(99))>>
    /\ iter.pos = 3
    /\ result = Some(Ok(3))

(***************************************************************************)
(* C17: the size hint of the adapter is sound in every state: the number   *)
(* of elements the adapter yields on all later polls is at least the       *)
(* lower bound and at most the upper bound it reports.  The states are     *)
(* those in which the adapter is still held by its consumer.               *)
(***************************************************************************)
\* The number of elements a shunt yields on its next n polls.
RECURSIVE Yielded(_, _)
Yielded(self, n) ==
    IF n = 0 THEN 0
    ELSE LET r == ResultShunt_next(self)
         IN  (IF r.out # None THEN 1 ELSE 0) + Yielded(r.it, n - 1)

StillToYield ==
    Yielded(Shunt, IF iter.pos < Len(iter.script) THEN Len(iter.script) - iter.pos ELSE 0)

C17_SizeHintSound ==
    (op \in ShuntOps /\ pc \in {"fold", "consume"}) =>
        /\ ResultShunt_size_hint(Shunt)[1] <= StillToYield
        /\ ResultShunt_size_hint(Shunt)[2] # None =>
              StillToYield <= ResultShunt_size_hint(Shunt)[2][1]

====
